---- MODULE Spec2Model ----
(***************************************************************************)
(* A model of dns_sinkhole/main.py: the hierarchical list match, the DNS   *)
(* request path run by one thread per datagram, the blocklist fetcher and  *)
(* the dashboard handlers, with the two locks and the log ring.            *)
(*                                                                         *)
(* Text is a sequence of one-character strings, so that str.split,         *)
(* str.join, str.lower and str.startswith are computed and not assumed.    *)
(* Wall-clock timestamps and client addresses of log entries are left out. *)
(***************************************************************************)
EXTENDS Integers, Sequences, FiniteSets, TLC

VARIABLES
    BLOCKLIST,        \* main.py:25
    ALLOWLIST,        \* main.py:26
    DENYLIST,         \* main.py:27
    total_queries,    \* main.py:30
    blocked_queries,  \* main.py:31
    dns_logs,         \* main.py:32, deque(maxlen=100)
    stats_lock,       \* main.py:33, "free" or the holding thread
    list_lock,        \* main.py:34, "free" or the holding thread
    wk,               \* the handle_query threads: locals and position, and as
                      \* history the places in log_history of the entries a
                      \* thread appended and the sets each iteration of its
                      \* match tested
    received,         \* datagrams taken by sock.recvfrom so far
    main_pc,          \* position of the __main__ block
    timer,            \* the threading.Timer objects started and not yet fired
    fetch,            \* the running download_blocklist call
    dash,             \* the dashboard request being handled
    posts,            \* POST requests accepted so far
    log_history,      \* history: every entry ever appended to dns_logs
    counted,          \* history: datagrams parsed with at least one question
    published         \* history: every triple <<deny, allow, block>> that was
                      \* published at one instant

vars == <<BLOCKLIST, ALLOWLIST, DENYLIST, total_queries, blocked_queries,
          dns_logs, stats_lock, list_lock, wk, received, main_pc, timer,
          fetch, dash, posts, log_history, counted, published>>

-----------------------------------------------------------------------------
(* Bounds of the model *)

MaxQueries == 2
MaxFetches == 3
MaxPosts == 2
MaxLines == 2
FeedFetches == 2
RingQueries == 52

(* Program constants *)

MaxLogs == 100
SinkholeTTL == 60
NOERROR == 0
SERVFAIL == 2

-----------------------------------------------------------------------------
(* Text *)

None == "None"
NoText == <<>>
DOT == "."
SP == " "

LowerChar(ch) ==
    CASE ch = "A" -> "a"
      [] ch = "C" -> "c"
      [] ch = "E" -> "e"
      [] ch = "X" -> "x"
      [] OTHER -> ch

Lower(s) == [i \in 1..Len(s) |-> LowerChar(s[i])]

RECURSIVE SplitOn(_, _)
SplitOn(s, sep) ==
    IF \E i \in 1..Len(s) : s[i] = sep
    THEN LET i == CHOOSE j \in 1..Len(s) :
                     s[j] = sep /\ \A k \in 1..(j - 1) : s[k] # sep
         IN <<SubSeq(s, 1, i - 1)>> \o SplitOn(SubSeq(s, i + 1, Len(s)), sep)
    ELSE <<s>>

RECURSIVE JoinWith(_, _)
JoinWith(parts, sep) ==
    IF Len(parts) = 0 THEN NoText
    ELSE IF Len(parts) = 1 THEN parts[1]
    ELSE parts[1] \o <<sep>> \o JoinWith(Tail(parts), sep)

Strip(s) ==
    IF \A i \in 1..Len(s) : s[i] = SP THEN NoText
    ELSE LET a == CHOOSE i \in 1..Len(s) :
                     s[i] # SP /\ \A k \in 1..(i - 1) : s[k] = SP
             b == CHOOSE i \in 1..Len(s) :
                     s[i] # SP /\ \A k \in (i + 1)..Len(s) : s[k] = SP
         IN SubSeq(s, a, b)

SplitWhitespace(s) == SelectSeq(SplitOn(s, SP), LAMBDA t : t # NoText)

StartsWith(s, ch) == Len(s) >= 1 /\ s[1] = ch

EndsWith(s, t) ==
    Len(t) <= Len(s) /\ SubSeq(s, Len(s) - Len(t) + 1, Len(s)) = t

-----------------------------------------------------------------------------
(* The hierarchical match *)

is_domain_blocked_deny_last(qname, denylist, allowlist, blocklist) ==
    LET parts == SplitOn(qname, DOT)
        sub(i) == JoinWith(SubSeq(parts, i, Len(parts)), DOT)
        hit(i) == sub(i) \in denylist \cup allowlist \cup blocklist
    IN IF \E i \in 1..Len(parts) : hit(i)
       THEN LET i == CHOOSE j \in 1..Len(parts) :
                        hit(j) /\ \A k \in 1..(j - 1) : ~hit(k)
            IN IF sub(i) \in allowlist THEN <<"ALLOWLIST", sub(i)>>
               ELSE IF sub(i) \in blocklist THEN <<"BLOCKLIST", sub(i)>>
               ELSE <<"DENYLIST", sub(i)>>
       ELSE <<None, NoText>>

is_domain_blocked_endswith(qname, denylist, allowlist, blocklist) ==
    LET hit(i) == SubSeq(qname, i, Len(qname))
                      \in denylist \cup allowlist \cup blocklist
    IN IF \E i \in 1..Len(qname) : hit(i)
       THEN LET i == CHOOSE j \in 1..Len(qname) :
                        hit(j) /\ \A k \in 1..(j - 1) : ~hit(k)
                s == SubSeq(qname, i, Len(qname))
            IN IF s \in denylist THEN <<"DENYLIST", s>>
               ELSE IF s \in allowlist THEN <<"ALLOWLIST", s>>
               ELSE <<"BLOCKLIST", s>>
       ELSE <<None, NoText>>

RECURSIVE MatchFrom(_, _, _, _, _)
MatchFrom(parts, i, denylist, allowlist, blocklist) ==
    IF i > Len(parts) THEN <<None, NoText>>
    ELSE LET sub_domain == JoinWith(SubSeq(parts, i, Len(parts)), DOT)
         IN IF sub_domain \in denylist THEN <<"DENYLIST", sub_domain>>
            ELSE IF sub_domain \in allowlist THEN <<"ALLOWLIST", sub_domain>>
            ELSE IF sub_domain \in blocklist THEN <<"BLOCKLIST", sub_domain>>
            ELSE MatchFrom(parts, i + 1, denylist, allowlist, blocklist)

is_domain_blocked_hierarchical(qname, denylist, allowlist, blocklist) ==
    MatchFrom(SplitOn(qname, DOT), 1, denylist, allowlist, blocklist)

-----------------------------------------------------------------------------
(* Domains, DNS names and datagrams of the model *)

d_c == <<"c">>
d_xc == <<"x", ".", "c">>
d_exc == <<"e", "x", ".", "c">>
d_aexc == <<"a", ".", "e", "x", ".", "c">>
d_ExC == <<"E", "x", ".", "C">>

n_Exc == << <<"E", "x">>, <<"c">> >>
n_aexc == << <<"a">>, <<"e", "x">>, <<"c">> >>
n_xc == << <<"x">>, <<"c">> >>

to_text(name) == JoinWith(name, DOT)

from_text(text) ==
    SplitOn(IF EndsWith(text, <<DOT>>) THEN SubSeq(text, 1, Len(text) - 1)
            ELSE text, DOT)

Question(name, rdtype) == [name |-> name, rdtype |-> rdtype]

\* message.from_wire(data): qr is the QR flag of the header, set in a DNS
\* response and clear in a query.
Message(id, question) ==
    [parses |-> TRUE, id |-> id, question |-> question, qr |-> FALSE]

ResponseMessage(id, question) == [Message(id, question) EXCEPT !.qr = TRUE]

Junk == [parses |-> FALSE, id |-> 0, question |-> << >>, qr |-> FALSE]

Datagrams ==
    { Junk,
      Message(1, << >>),
      Message(2, <<Question(n_Exc, "AAAA")>>),
      Message(3, <<Question(n_aexc, "A")>>),
      Message(4, <<Question(n_xc, "MX")>>) }

\* The handle_query threads that can run at once; a thread that has ended
\* leaves its place to the thread of a later datagram.
Workers == {"w1", "w2"}

UpstreamOutcomes == {"ok", "timeout", "error"}

\* CONFIG['SINKHOLE_IP'], and the address in the upstream's answers
SINKHOLE_IP == <<"0", ".", "0", ".", "0", ".", "0">>
UPSTREAM_IP == <<"9", "3">>

-----------------------------------------------------------------------------
(* DNS responses *)

NoReply == << >>

RR(name, ttl, rdclass, rdtype, rdata) ==
    [name |-> name, ttl |-> ttl, rdclass |-> rdclass, rdtype |-> rdtype,
     rdata |-> rdata]

\* message.make_response raises FormError for a message whose QR flag is set.
NotAQuery(req) == req.qr

make_response(req) ==
    [id |-> req.id, question |-> req.question, rcode |-> NOERROR,
     answer |-> << >>, authority |-> << >>, additional |-> << >>]

LowerName(name) == [i \in 1..Len(name) |-> Lower(name[i])]

\* Message.to_wire writes an owner name that equals the question's name
\* (names compare without case) as a pointer to the question's name.
to_wire(msg) ==
    [msg EXCEPT !.answer =
        [i \in 1..Len(msg.answer) |->
            IF msg.question # << >>
               /\ LowerName(msg.answer[i].name) = LowerName(msg.question[1].name)
            THEN [msg.answer[i] EXCEPT !.name = msg.question[1].name]
            ELSE msg.answer[i]]]

create_sinkhole_response_qtype(req, qname_to_block) ==
    to_wire([make_response(req) EXCEPT
        !.answer = <<RR(from_text(qname_to_block \o <<DOT>>), SinkholeTTL, "IN",
                        req.question[1].rdtype, SINKHOLE_IP)>>])

create_sinkhole_response(req, qname_to_block) ==
    to_wire([make_response(req) EXCEPT
        !.rcode = NOERROR,
        !.answer = <<RR(from_text(qname_to_block \o <<DOT>>), SinkholeTTL, "IN",
                        "A", SINKHOLE_IP)>>])

servfail_response_noerror(req) == make_response(req)

\* make_response(request) with set_rcode(2)
servfail_response(req) == [make_response(req) EXCEPT !.rcode = SERVFAIL]

\* What query.udp returns when the upstream answers.
upstream_response(req) ==
    [make_response(req) EXCEPT
        !.answer = <<RR(req.question[1].name, 300, "IN", req.question[1].rdtype,
                        UPSTREAM_IP)>>]

-----------------------------------------------------------------------------
(* Locks, counters and the log ring *)

AcquireOK_nolock(lock) == TRUE

AcquireOK(lock) == lock = "free"

DequeAppend_dropnew(q, e) == IF Len(q) >= MaxLogs THEN q ELSE Append(q, e)

DequeAppend_left(q, e) ==
    IF Len(q) >= MaxLogs THEN <<e>> \o SubSeq(q, 1, Len(q) - 1) ELSE <<e>> \o q

DequeAppend(q, e) ==
    IF Len(q) >= MaxLogs THEN Tail(q) \o <<e>> ELSE Append(q, e)

Reverse(q) == [i \in 1..Len(q) |-> q[Len(q) + 1 - i]]

LogEntry(tag, qname, note) == [tag |-> tag, qname |-> qname, note |-> note]

-----------------------------------------------------------------------------
(* The handle_query threads *)

IdleWorker ==
    [pc |-> "idle", data |-> Junk, qname |-> NoText, tmp |-> 0,
     deny |-> {}, allow |-> {}, action |-> None, matched |-> NoText,
     log_reason |-> NoText, outcome |-> None, response |-> NoReply,
     upstream_calls |-> 0, reply |-> NoReply, consistent |-> TRUE,
     entries |-> << >>, block |-> {}, i |-> 0, tested |-> << >>]

others == <<main_pc, timer, fetch, dash, posts>>
lists == <<BLOCKLIST, ALLOWLIST, DENYLIST, list_lock, published>>
stats == <<total_queries, blocked_queries, dns_logs, stats_lock, log_history>>

\* The receive loop running dns_response itself: no datagram is taken while
\* an earlier one is being processed.
Accept_inline(w, d, limit) ==
    /\ main_pc = "serving"
    /\ received < limit
    /\ \A v \in Workers : wk[v].pc \in {"idle", "done"}
    /\ wk' = [wk EXCEPT ![w] = [IdleWorker EXCEPT !.pc = "parse", !.data = d]]
    /\ received' = received + 1
    /\ UNCHANGED <<lists, stats, others, counted>>

\* dns_server: sock.recvfrom, threading.Thread(target=handle_query).start()
Accept(w, d, limit) ==
    /\ main_pc = "serving"
    /\ received < limit
    /\ wk[w].pc \in {"idle", "done"}
    /\ wk' = [wk EXCEPT ![w] = [IdleWorker EXCEPT !.pc = "parse", !.data = d]]
    /\ received' = received + 1
    /\ UNCHANGED <<lists, stats, others, counted>>

Parse_answers_all(w) ==
    /\ wk[w].pc = "parse"
    /\ IF ~wk[w].data.parses \/ wk[w].data.question = << >>
       THEN /\ wk' = [wk EXCEPT ![w].pc = "done",
                                ![w].reply = <<servfail_response(wk[w].data)>>]
            /\ UNCHANGED counted
       ELSE /\ wk' = [wk EXCEPT
                 ![w].pc = "lock_count",
                 ![w].qname = Lower(to_text(wk[w].data.question[1].name))]
            /\ counted' = counted + 1
    /\ UNCHANGED <<lists, stats, others, received>>

\* dns_response: message.from_wire, the question test, qname
Parse(w) ==
    /\ wk[w].pc = "parse"
    /\ IF ~wk[w].data.parses \/ wk[w].data.question = << >>
       THEN /\ wk' = [wk EXCEPT ![w].pc = "done"]
            /\ UNCHANGED counted
       ELSE /\ wk' = [wk EXCEPT
                 ![w].pc = "lock_count",
                 ![w].qname = Lower(to_text(wk[w].data.question[1].name))]
            /\ counted' = counted + 1
    /\ UNCHANGED <<lists, stats, others, received>>

AfterAcquire(pc) ==
    CASE pc = "lock_count" -> "load_total"
      [] pc = "lock_block" -> "load_blocked"
      [] pc = "lock_fwd" -> "append_fwd"

\* with stats_lock:
AcquireStats(w) ==
    /\ wk[w].pc \in {"lock_count", "lock_block", "lock_fwd"}
    /\ AcquireOK(stats_lock)
    /\ stats_lock' = w
    /\ wk' = [wk EXCEPT ![w].pc = AfterAcquire(wk[w].pc)]
    /\ UNCHANGED <<lists, total_queries, blocked_queries, dns_logs, log_history,
                   others, received, counted>>

\* total_queries += 1: the read
LoadTotal(w) ==
    /\ wk[w].pc = "load_total"
    /\ wk' = [wk EXCEPT ![w].pc = "store_total", ![w].tmp = total_queries]
    /\ UNCHANGED <<lists, stats, others, received, counted>>

\* total_queries += 1: the write; dns_logs.append(log_entry); the lock's release
StoreTotal(w) ==
    /\ wk[w].pc = "store_total"
    /\ total_queries' = wk[w].tmp + 1
    /\ LET e == LogEntry("Query", wk[w].qname, wk[w].data.question[1].rdtype)
       IN /\ dns_logs' = DequeAppend(dns_logs, e)
          /\ log_history' = Append(log_history, e)
    /\ stats_lock' = "free"
    /\ wk' = [wk EXCEPT ![w].pc = "read_deny", ![w].tmp = 0,
                        ![w].entries = Append(wk[w].entries, Len(log_history) + 1)]
    /\ UNCHANGED <<lists, blocked_queries, others, received, counted>>

\* The arguments of the call at line 145, read one after the other.
ReadDeny(w) ==
    /\ wk[w].pc = "read_deny"
    /\ wk' = [wk EXCEPT ![w].pc = "read_allow", ![w].deny = DENYLIST]
    /\ UNCHANGED <<lists, stats, others, received, counted>>

ReadAllow(w) ==
    /\ wk[w].pc = "read_allow"
    /\ wk' = [wk EXCEPT ![w].pc = "read_block", ![w].allow = ALLOWLIST]
    /\ UNCHANGED <<lists, stats, others, received, counted>>

IsBlockingAction_anymatch(action) == action # None

IsBlockingAction(action) == action \in {"DENYLIST", "BLOCKLIST"}

\* The read of BLOCKLIST, the match and the dispatch on its action.
Match(w) ==
    /\ wk[w].pc = "read_block"
    /\ LET r == is_domain_blocked_hierarchical(
                    wk[w].qname, wk[w].deny, wk[w].allow, BLOCKLIST)
       IN wk' = [wk EXCEPT
             ![w].pc = IF IsBlockingAction(r[1]) THEN "lock_block" ELSE "forward",
             ![w].action = r[1],
             ![w].matched = r[2],
             ![w].log_reason = IF r[1] = "ALLOWLIST" THEN r[2] ELSE NoText,
             ![w].consistent = <<wk[w].deny, wk[w].allow, BLOCKLIST>> \in published,
             ![w].deny = {},
             ![w].allow = {}]
    /\ UNCHANGED <<lists, stats, others, received, counted>>

\* The argument BLOCKLIST of the call at line 145, and the call.
ReadBlock(w) ==
    /\ wk[w].pc = "read_block"
    /\ wk' = [wk EXCEPT
          ![w].pc = "loop",
          ![w].block = BLOCKLIST,
          ![w].i = 1,
          ![w].consistent = <<wk[w].deny, wk[w].allow, BLOCKLIST>> \in published]
    /\ UNCHANGED <<lists, stats, others, received, counted>>

\* What ends the call: the return of the match and the dispatch on its action.
Returning(w, action, matched) ==
    [wk[w] EXCEPT
        !.pc = IF IsBlockingAction(action) THEN "lock_block" ELSE "forward",
        !.action = action,
        !.matched = matched,
        !.log_reason = IF action = "ALLOWLIST" THEN matched ELSE NoText,
        !.deny = {}, !.allow = {}, !.block = {}, !.i = 0]

Tested(w, denylist, allowlist, blocklist) ==
    Append(wk[w].tested,
           [used |-> <<denylist, allowlist, blocklist>>,
            current |-> <<DENYLIST, ALLOWLIST, BLOCKLIST>>])

\* One iteration of the loop, with the sets it tests.
Iteration(w, denylist, allowlist, blocklist) ==
    LET parts == SplitOn(wk[w].qname, DOT)
        sub_domain == JoinWith(SubSeq(parts, wk[w].i, Len(parts)), DOT)
        r == IF sub_domain \in denylist
                  THEN Returning(w, "DENYLIST", sub_domain)
             ELSE IF sub_domain \in allowlist
                  THEN Returning(w, "ALLOWLIST", sub_domain)
             ELSE IF sub_domain \in blocklist
                  THEN Returning(w, "BLOCKLIST", sub_domain)
             ELSE IF wk[w].i < Len(parts) THEN [wk[w] EXCEPT !.i = wk[w].i + 1]
             ELSE Returning(w, None, NoText)
    IN /\ wk[w].pc = "loop"
       /\ wk' = [wk EXCEPT ![w] = [r EXCEPT
                     !.tested = Tested(w, denylist, allowlist, blocklist)]]
       /\ UNCHANGED <<lists, stats, others, received, counted>>

\* The loop testing the module's globals where the code tests its arguments.
MatchStep_globals(w) == Iteration(w, DENYLIST, ALLOWLIST, BLOCKLIST)

\* is_domain_blocked_hierarchical: one iteration of the loop over the suffixes
MatchStep(w) == Iteration(w, wk[w].deny, wk[w].allow, wk[w].block)

\* blocked_queries += 1: the read
LoadBlocked(w) ==
    /\ wk[w].pc = "load_blocked"
    /\ wk' = [wk EXCEPT ![w].pc = "store_blocked", ![w].tmp = blocked_queries]
    /\ UNCHANGED <<lists, stats, others, received, counted>>

BlockedTag(action) ==
    IF action = "DENYLIST" THEN "DENYLIST BLOCKED" ELSE "BLOCKLIST BLOCKED"

StoreBlocked_noappend(w) ==
    /\ wk[w].pc = "store_blocked"
    /\ blocked_queries' = wk[w].tmp + 1
    /\ stats_lock' = "free"
    /\ wk' = [wk EXCEPT
          ![w].pc = "done", ![w].tmp = 0,
          ![w].reply = IF NotAQuery(wk[w].data) THEN NoReply
                       ELSE <<create_sinkhole_response(wk[w].data,
                                                       wk[w].qname)>>]
    /\ UNCHANGED <<lists, total_queries, dns_logs, log_history, others, received,
                   counted>>

\* blocked_queries += 1: the write; the BLOCKED entry; the release; the
\* sinkhole response returned to handle_query and sent, unless make_response
\* raises at line 139: nothing catches it and the thread ends.
StoreBlocked(w) ==
    /\ wk[w].pc = "store_blocked"
    /\ blocked_queries' = wk[w].tmp + 1
    /\ LET e == LogEntry(BlockedTag(wk[w].action), wk[w].qname, wk[w].matched)
       IN /\ dns_logs' = DequeAppend(dns_logs, e)
          /\ log_history' = Append(log_history, e)
    /\ stats_lock' = "free"
    /\ wk' = [wk EXCEPT
          ![w].pc = "done", ![w].tmp = 0,
          ![w].reply = IF NotAQuery(wk[w].data) THEN NoReply
                       ELSE <<create_sinkhole_response(wk[w].data,
                                                       wk[w].qname)>>,
          ![w].entries = Append(wk[w].entries, Len(log_history) + 1)]
    /\ UNCHANGED <<lists, total_queries, others, received, counted>>

\* query.udp(request, UPSTREAM_DNS, timeout=5) is called
Forward(w) ==
    /\ wk[w].pc = "forward"
    /\ wk' = [wk EXCEPT ![w].pc = "wait_upstream",
                        ![w].upstream_calls = wk[w].upstream_calls + 1]
    /\ UNCHANGED <<lists, stats, others, received, counted>>

OutcomeTag(outcome) ==
    CASE outcome = "ok" -> "FORWARDED"
      [] outcome = "timeout" -> "TIMEOUT"
      [] outcome = "error" -> "ERROR"

\* query.udp returns, times out or raises; the response of the two except
\* branches is none when make_response raises at line 183 or 191.
UpstreamReturns(w, outcome) ==
    /\ wk[w].pc = "wait_upstream"
    /\ wk' = [wk EXCEPT
          ![w].pc = "lock_fwd",
          ![w].outcome = outcome,
          ![w].response = IF outcome = "ok"
                          THEN <<upstream_response(wk[w].data)>>
                          ELSE IF NotAQuery(wk[w].data) THEN NoReply
                          ELSE <<servfail_response(wk[w].data)>>]
    /\ UNCHANGED <<lists, stats, others, received, counted>>

AppendFwd_noreason(w) ==
    /\ wk[w].pc = "append_fwd"
    /\ LET e == LogEntry(OutcomeTag(wk[w].outcome), wk[w].qname, NoText)
       IN /\ dns_logs' = DequeAppend(dns_logs, e)
          /\ log_history' = Append(log_history, e)
    /\ stats_lock' = "free"
    /\ wk' = [wk EXCEPT ![w].pc = "done",
                        ![w].reply = IF wk[w].response = NoReply THEN NoReply
                                     ELSE <<to_wire(wk[w].response[1])>>,
                        ![w].response = NoReply,
                        ![w].entries = Append(wk[w].entries, Len(log_history) + 1)]
    /\ UNCHANGED <<lists, total_queries, blocked_queries, others, received,
                   counted>>

\* dns_logs.append(log_entry) of the three forwarding branches; the release;
\* response.to_wire() returned to handle_query and sent. An except branch
\* whose make_response raised has no response: the thread ends there.
AppendFwd(w) ==
    /\ wk[w].pc = "append_fwd"
    /\ LET e == LogEntry(OutcomeTag(wk[w].outcome), wk[w].qname, wk[w].log_reason)
       IN /\ dns_logs' = DequeAppend(dns_logs, e)
          /\ log_history' = Append(log_history, e)
    /\ stats_lock' = "free"
    /\ wk' = [wk EXCEPT ![w].pc = "done",
                        ![w].reply = IF wk[w].response = NoReply THEN NoReply
                                     ELSE <<to_wire(wk[w].response[1])>>,
                        ![w].response = NoReply,
                        ![w].entries = Append(wk[w].entries, Len(log_history) + 1)]
    /\ UNCHANGED <<lists, total_queries, blocked_queries, others, received,
                   counted>>

Worker(w) ==
    \/ Parse(w)
    \/ AcquireStats(w)
    \/ LoadTotal(w)
    \/ StoreTotal(w)
    \/ ReadDeny(w)
    \/ ReadAllow(w)
    \/ Match(w)
    \/ LoadBlocked(w)
    \/ StoreBlocked(w)
    \/ Forward(w)
    \/ \E o \in UpstreamOutcomes : UpstreamReturns(w, o)
    \/ AppendFwd(w)

-----------------------------------------------------------------------------
(* download_blocklist and refresh_blocklist_periodically *)

ZERO_IP == <<"0", ".", "0", ".", "0", ".", "0">>
LOOPBACK_IP == <<"1", "2", "7", ".", "0", ".", "0", ".", "1">>

CommentLine == <<"#", SP, "c">>
BlankLine == <<SP, SP>>

Bodies ==
    { <<CommentLine, ZERO_IP \o <<SP>> \o d_exc>>,
      <<d_c \o <<SP>>, BlankLine, LOOPBACK_IP \o <<SP, SP>> \o d_xc \o <<SP, "#", SP, "x">>>> }

FailKinds == {"http_error", "timeout", "transport_error"}

ParseLine_anyfirst(raw) ==
    LET line == Strip(raw)
        parts == SplitWhitespace(line)
    IN IF line = NoText \/ StartsWith(line, "#") THEN {}
       ELSE IF Len(parts) >= 2 THEN {Lower(Strip(parts[2]))}
       ELSE {Lower(Strip(parts[1]))}

\* One line of the feed: the domains it contributes.
ParseLine(raw) ==
    LET line == Strip(raw)
        parts == SplitWhitespace(line)
    IN IF line = NoText \/ StartsWith(line, "#") THEN {}
       ELSE IF Len(parts) >= 2 /\ (parts[1] = ZERO_IP \/ parts[1] = LOOPBACK_IP)
       THEN LET domain == Lower(Strip(parts[2]))
            IN IF domain # NoText THEN {domain} ELSE {}
       ELSE IF Len(parts) = 1
       THEN LET domain == Lower(Strip(parts[1]))
            IN IF domain # NoText THEN {domain} ELSE {}
       ELSE {}

\* new_blocklist after the first n lines of the body.
RECURSIVE ParseLines(_, _)
ParseLines(lines, n) ==
    IF n = 0 THEN {} ELSE ParseLines(lines, n - 1) \cup ParseLine(lines[n])

IdleFetch(runs, last) ==
    [pc |-> "idle", body |-> << >>, new_blocklist |-> {}, runs |-> runs,
     last |-> last]

\* download_blocklist returns to its caller: line 266, then line 267 inside
\* refresh_blocklist_periodically, later the timer's thread; a run of
\* refresh_blocklist_periodically starts the next timer.
Returned_timer_in_download(last) ==
    /\ fetch' = IdleFetch(fetch.runs, last)
    /\ main_pc' = CASE main_pc = "download" -> "refresh"
                    [] main_pc = "refresh" -> "serving"
                    [] OTHER -> main_pc
    /\ timer' = timer + 1

Returned(last) ==
    /\ fetch' = IdleFetch(fetch.runs, last)
    /\ main_pc' = CASE main_pc = "download" -> "refresh"
                    [] main_pc = "refresh" -> "serving"
                    [] OTHER -> main_pc
    /\ timer' = IF main_pc = "download" THEN timer ELSE timer + 1

FetchStart ==
    /\ fetch.pc = "idle"
    /\ fetch.runs < MaxFetches
    /\ main_pc \in {"download", "refresh"} \/ (main_pc = "serving" /\ timer > 0)
    /\ fetch' = [fetch EXCEPT !.pc = "get", !.runs = fetch.runs + 1]
    /\ timer' = IF main_pc = "serving" THEN timer - 1 ELSE timer
    /\ UNCHANGED <<lists, stats, wk, received, main_pc, dash, posts, counted>>

\* requests.get or raise_for_status raises
FetchGetFails(kind) ==
    /\ fetch.pc = "get"
    /\ kind \in FailKinds
    /\ Returned("request_error")
    /\ UNCHANGED <<lists, stats, wk, received, dash, posts, counted>>

FetchGetBody(body) ==
    /\ fetch.pc = "get"
    /\ fetch' = [fetch EXCEPT !.pc = "parse", !.body = body]
    /\ UNCHANGED <<lists, stats, wk, received, main_pc, timer, dash, posts,
                   counted>>

\* The loop over the lines, to its end.
FetchParse ==
    /\ fetch.pc = "parse"
    /\ fetch' = [fetch EXCEPT
          !.pc = "lock",
          !.new_blocklist = ParseLines(fetch.body, Len(fetch.body)),
          !.body = << >>]
    /\ UNCHANGED <<lists, stats, wk, received, main_pc, timer, dash, posts,
                   counted>>

FetchParseFails_inplace ==
    /\ fetch.pc = "parse"
    /\ \E n \in 0..Len(fetch.body) :
          /\ BLOCKLIST' = ParseLines(fetch.body, n)
          /\ published' = published \cup
                 {<<DENYLIST, ALLOWLIST, ParseLines(fetch.body, n)>>}
    /\ Returned("processing_error")
    /\ UNCHANGED <<ALLOWLIST, DENYLIST, list_lock, stats, wk, received, dash,
                   posts, counted>>

\* An exception inside the loop, after any number of lines: new_blocklist
\* is dropped with the frame.
FetchParseFails ==
    /\ fetch.pc = "parse"
    /\ Returned("processing_error")
    /\ UNCHANGED <<lists, stats, wk, received, dash, posts, counted>>

\* with list_lock:
FetchLock ==
    /\ fetch.pc = "lock"
    /\ AcquireOK(list_lock)
    /\ list_lock' = "fetch"
    /\ fetch' = [fetch EXCEPT !.pc = "publish"]
    /\ UNCHANGED <<BLOCKLIST, ALLOWLIST, DENYLIST, published, stats, wk, received,
                   main_pc, timer, dash, posts, counted>>

\* BLOCKLIST = new_blocklist, and the release
FetchPublish ==
    /\ fetch.pc = "publish"
    /\ BLOCKLIST' = fetch.new_blocklist
    /\ published' = published \cup {<<DENYLIST, ALLOWLIST, fetch.new_blocklist>>}
    /\ list_lock' = "free"
    /\ Returned("ok")
    /\ UNCHANGED <<ALLOWLIST, DENYLIST, stats, wk, received, dash, posts, counted>>

Fetcher ==
    \/ FetchStart
    \/ \E kind \in FailKinds : FetchGetFails(kind)
    \/ \E body \in Bodies : FetchGetBody(body)
    \/ FetchParse
    \/ FetchParseFails
    \/ FetchLock
    \/ FetchPublish

-----------------------------------------------------------------------------
(* The dashboard's handlers *)

NoStats == [total_queries |-> 0, blocked_queries |-> 0, blocklist_size |-> 0,
            allowlist |-> {}, denylist |-> {}]

\* request.get_json(): the body with or without its 'domains'
NoDomains == [has_domains |-> FALSE, domains |-> << >>]

PostBodies ==
    { NoDomains,
      [has_domains |-> TRUE, domains |-> <<d_ExC, d_exc>>],
      [has_domains |-> TRUE, domains |-> <<d_aexc>>] }

IdleDash == [pc |-> "idle", op |-> None, data |-> NoDomains, domains |-> {},
             stats |-> NoStats, logs |-> << >>]

RequestedDomains_keepcase(data) ==
    LET given == IF data.has_domains THEN data.domains ELSE << >>
    IN {given[i] : i \in 1..Len(given)}

\* set(d.lower() for d in data.get('domains', []))
RequestedDomains(data) ==
    LET given == IF data.has_domains THEN data.domains ELSE << >>
    IN {Lower(given[i]) : i \in 1..Len(given)}

DashGet(op) ==
    /\ main_pc = "serving"
    /\ dash.pc = "idle"
    /\ op \in {"stats", "logs"}
    /\ dash' = [IdleDash EXCEPT !.pc = "lock_stats", !.op = op]
    /\ UNCHANGED <<lists, stats, wk, received, main_pc, timer, fetch, posts,
                   counted>>

DashPost(op, data) ==
    /\ main_pc = "serving"
    /\ dash.pc = "idle"
    /\ op \in {"allowlist", "denylist"}
    /\ posts < MaxPosts
    /\ posts' = posts + 1
    /\ dash' = [IdleDash EXCEPT !.pc = "lock_list", !.op = op, !.data = data,
                                !.domains = RequestedDomains(data)]
    /\ UNCHANGED <<lists, stats, wk, received, main_pc, timer, fetch, counted>>

\* with stats_lock: of get_stats and get_logs
DashLockStats ==
    /\ dash.pc = "lock_stats"
    /\ AcquireOK(stats_lock)
    /\ stats_lock' = "dash"
    /\ dash' = [dash EXCEPT !.pc = IF dash.op = "stats" THEN "lock_list"
                                   ELSE "copy_logs"]
    /\ UNCHANGED <<lists, total_queries, blocked_queries, dns_logs, log_history,
                   wk, received, main_pc, timer, fetch, posts, counted>>

\* with list_lock: of get_stats, update_allowlist and update_denylist
DashLockList ==
    /\ dash.pc = "lock_list"
    /\ AcquireOK(list_lock)
    /\ list_lock' = "dash"
    /\ dash' = [dash EXCEPT !.pc = IF dash.op = "stats" THEN "read_stats"
                                   ELSE "assign"]
    /\ UNCHANGED <<BLOCKLIST, ALLOWLIST, DENYLIST, published, stats, wk, received,
                   main_pc, timer, fetch, posts, counted>>

DashReadStats_keeps_list_lock ==
    /\ dash.pc = "read_stats"
    /\ dash' = [dash EXCEPT
          !.pc = "respond",
          !.stats = [total_queries |-> total_queries,
                     blocked_queries |-> blocked_queries,
                     blocklist_size |-> Cardinality(BLOCKLIST),
                     allowlist |-> ALLOWLIST,
                     denylist |-> DENYLIST]]
    /\ stats_lock' = "free"
    /\ UNCHANGED <<lists, total_queries, blocked_queries, dns_logs, log_history,
                   wk, received, main_pc, timer, fetch, posts, counted>>

\* get_stats: the dict built under both locks, then both released
DashReadStats ==
    /\ dash.pc = "read_stats"
    /\ dash' = [dash EXCEPT
          !.pc = "respond",
          !.stats = [total_queries |-> total_queries,
                     blocked_queries |-> blocked_queries,
                     blocklist_size |-> Cardinality(BLOCKLIST),
                     allowlist |-> ALLOWLIST,
                     denylist |-> DENYLIST]]
    /\ list_lock' = "free"
    /\ stats_lock' = "free"
    /\ UNCHANGED <<BLOCKLIST, ALLOWLIST, DENYLIST, published, total_queries,
                   blocked_queries, dns_logs, log_history, wk, received, main_pc,
                   timer, fetch, posts, counted>>

\* list(dns_logs)[::-1]
get_logs(q) == Reverse(q)

\* get_logs: the copy, made under stats_lock
DashCopyLogs ==
    /\ dash.pc = "copy_logs"
    /\ dash' = [dash EXCEPT !.pc = "return_logs", !.logs = get_logs(dns_logs)]
    /\ UNCHANGED <<lists, stats, wk, received, main_pc, timer, fetch, posts,
                   counted>>

DashReturnLogs ==
    /\ dash.pc = "return_logs"
    /\ stats_lock' = "free"
    /\ dash' = [dash EXCEPT !.pc = "respond"]
    /\ UNCHANGED <<lists, total_queries, blocked_queries, dns_logs, log_history,
                   wk, received, main_pc, timer, fetch, posts, counted>>

\* ALLOWLIST = domains or DENYLIST = domains, and the release
DashAssign ==
    /\ dash.pc = "assign"
    /\ IF dash.op = "allowlist"
       THEN /\ ALLOWLIST' = dash.domains
            /\ published' = published \cup {<<DENYLIST, dash.domains, BLOCKLIST>>}
            /\ UNCHANGED DENYLIST
       ELSE /\ DENYLIST' = dash.domains
            /\ published' = published \cup {<<dash.domains, ALLOWLIST, BLOCKLIST>>}
            /\ UNCHANGED ALLOWLIST
    /\ list_lock' = "free"
    /\ dash' = [dash EXCEPT !.pc = "respond"]
    /\ UNCHANGED <<BLOCKLIST, stats, wk, received, main_pc, timer, fetch, posts,
                   counted>>

\* jsonify(...) is sent and the handler ends
DashRespond ==
    /\ dash.pc = "respond"
    /\ dash' = IdleDash
    /\ UNCHANGED <<lists, stats, wk, received, main_pc, timer, fetch, posts,
                   counted>>

DashRead ==
    \/ DashGet("stats")
    \/ DashLockStats
    \/ DashLockList
    \/ DashReadStats
    \/ DashRespond

DashLogs ==
    \/ DashGet("logs")
    \/ DashLockStats
    \/ DashCopyLogs
    \/ DashReturnLogs
    \/ DashRespond

DashWrite ==
    \/ \E op \in {"allowlist", "denylist"}, data \in PostBodies : DashPost(op, data)
    \/ DashLockList
    \/ DashAssign
    \/ DashRespond

Dashboard == DashRead \/ DashLogs \/ DashWrite

-----------------------------------------------------------------------------
(* The program from its start *)

Init ==
    /\ BLOCKLIST = {}
    /\ ALLOWLIST = {}
    /\ DENYLIST = {}
    /\ total_queries = 0
    /\ blocked_queries = 0
    /\ dns_logs = << >>
    /\ stats_lock = "free"
    /\ list_lock = "free"
    /\ wk = [w \in Workers |-> IdleWorker]
    /\ received = 0
    /\ main_pc = "download"
    /\ timer = 0
    /\ fetch = IdleFetch(0, "none")
    /\ dash = IdleDash
    /\ posts = 0
    /\ log_history = << >>
    /\ counted = 0
    /\ published = {<<{}, {}, {}>>}

Next ==
    \/ \E w \in Workers, d \in Datagrams : Accept(w, d, MaxQueries)
    \/ \E w \in Workers : Worker(w)
    \/ Fetcher
    \/ Dashboard

\* The whole program. Its parts below are what the properties are checked
\* under: each keeps the threads a property is about.
Spec == Init /\ [][Next]_vars

-----------------------------------------------------------------------------
(* The program once it serves: both start-up downloads have returned, the  *)
(* second one published block, and the dashboard has posted deny and allow *)

Serving(deny, allow, block) ==
    /\ BLOCKLIST = block
    /\ ALLOWLIST = allow
    /\ DENYLIST = deny
    /\ total_queries = 0
    /\ blocked_queries = 0
    /\ dns_logs = << >>
    /\ stats_lock = "free"
    /\ list_lock = "free"
    /\ wk = [w \in Workers |-> IdleWorker]
    /\ received = 0
    /\ main_pc = "serving"
    /\ timer = 1
    /\ fetch = IdleFetch(2, "ok")
    /\ dash = IdleDash
    /\ posts = 0
    /\ log_history = << >>
    /\ counted = 0
    /\ published = {<<{}, {}, {}>>, <<{}, {}, block>>, <<deny, {}, block>>,
                    <<deny, allow, block>>}

\* The request path on fixed lists, with the dashboard reading the counters.
InitQueries ==
    \/ Serving({}, {d_aexc}, {d_exc})
    \/ Serving({d_c}, {d_exc}, {d_exc})

NextQueries ==
    \/ \E w \in Workers, d \in Datagrams : Accept(w, d, MaxQueries)
    \/ \E w \in Workers : Worker(w)
    \/ DashRead

SpecQueries == InitQueries /\ [][NextQueries]_vars

-----------------------------------------------------------------------------
(* A forward in flight: the first thread has called the upstream for x.c    *)
(* and waits, and the receive loop goes on                                  *)

InitPending ==
    LET d == Message(4, <<Question(n_xc, "MX")>>)
        e == LogEntry("Query", d_xc, "MX")
    IN /\ BLOCKLIST = {d_exc}
       /\ ALLOWLIST = {d_aexc}
       /\ DENYLIST = {}
       /\ total_queries = 1
       /\ blocked_queries = 0
       /\ dns_logs = <<e>>
       /\ stats_lock = "free"
       /\ list_lock = "free"
       /\ wk = [w \in Workers |->
                  IF w = "w1"
                  THEN [IdleWorker EXCEPT !.pc = "wait_upstream", !.data = d,
                                          !.qname = d_xc, !.upstream_calls = 1,
                                          !.entries = <<1>>]
                  ELSE IdleWorker]
       /\ received = 1
       /\ main_pc = "serving"
       /\ timer = 1
       /\ fetch = IdleFetch(2, "ok")
       /\ dash = IdleDash
       /\ posts = 0
       /\ log_history = <<e>>
       /\ counted = 1
       /\ published = {<<{}, {}, {}>>, <<{}, {}, {d_exc}>>,
                       <<{}, {d_aexc}, {d_exc}>>}

NextPending ==
    \/ \E d \in Datagrams : Accept("w2", d, MaxQueries)
    \/ \E w \in Workers : Worker(w)

SpecPending == InitPending /\ [][NextPending]_vars

-----------------------------------------------------------------------------
(* The match alone: one thread about to match one name against any lists *)

d_axc == <<"a", ".", "x", ".", "c">>

MatchDomains == {d_c, d_xc, d_exc, d_aexc}

MatchQNames == {d_c, d_xc, d_exc, d_aexc, d_axc}

InitMatch ==
    \E q \in MatchQNames :
        LET d == Message(5, <<Question(from_text(q), "A")>>)
            e == LogEntry("Query", q, "A")
        IN /\ BLOCKLIST \in SUBSET MatchDomains
           /\ ALLOWLIST \in SUBSET MatchDomains
           /\ DENYLIST \in SUBSET MatchDomains
           /\ total_queries = 1
           /\ blocked_queries = 0
           /\ dns_logs = <<e>>
           /\ stats_lock = "free"
           /\ list_lock = "free"
           /\ wk = [w \in Workers |->
                      IF w = "w1"
                      THEN [IdleWorker EXCEPT !.pc = "read_deny", !.data = d,
                                              !.qname = q, !.entries = <<1>>]
                      ELSE IdleWorker]
           /\ received = 1
           /\ main_pc = "serving"
           /\ timer = 1
           /\ fetch = IdleFetch(2, "ok")
           /\ dash = IdleDash
           /\ posts = 0
           /\ log_history = <<e>>
           /\ counted = 1
           /\ published = {<<DENYLIST, ALLOWLIST, BLOCKLIST>>}

NextMatch ==
    \/ ReadDeny("w1")
    \/ ReadAllow("w1")
    \/ Match("w1")

SpecMatch == InitMatch /\ [][NextMatch]_vars

-----------------------------------------------------------------------------
(* The match iteration by iteration under replacement: one thread has       *)
(* counted its query for a.ex.c and is about to call the match, beside one  *)
(* refresh and the POST handlers                                            *)

InitIter ==
    LET d == Message(3, <<Question(n_aexc, "A")>>)
        e == LogEntry("Query", d_aexc, "A")
    IN /\ BLOCKLIST = {d_c, d_xc}
       /\ ALLOWLIST = {}
       /\ DENYLIST = {}
       /\ total_queries = 1
       /\ blocked_queries = 0
       /\ dns_logs = <<e>>
       /\ stats_lock = "free"
       /\ list_lock = "free"
       /\ wk = [w \in Workers |->
                  IF w = "w1"
                  THEN [IdleWorker EXCEPT !.pc = "read_deny", !.data = d,
                                          !.qname = d_aexc, !.entries = <<1>>]
                  ELSE IdleWorker]
       /\ received = 1
       /\ main_pc = "serving"
       /\ timer = 1
       /\ fetch = IdleFetch(MaxFetches - 1, "ok")
       /\ dash = IdleDash
       /\ posts = 0
       /\ log_history = <<e>>
       /\ counted = 1
       /\ published = {<<{}, {}, {}>>, <<{}, {}, {d_c, d_xc}>>}

NextIter ==
    \/ ReadDeny("w1")
    \/ ReadAllow("w1")
    \/ ReadBlock("w1")
    \/ MatchStep("w1")
    \/ Fetcher
    \/ DashWrite

SpecIter == InitIter /\ [][NextIter]_vars

-----------------------------------------------------------------------------
(* The lists under replacement: one query thread, the fetcher's refresh and *)
(* the dashboard's POST handlers                                           *)

QueryDatagrams == {d \in Datagrams : d.parses /\ d.question # << >>}

NextLists ==
    \/ \E d \in QueryDatagrams : Accept("w1", d, MaxQueries)
    \/ Worker("w1")
    \/ Fetcher
    \/ DashWrite

InitLists == Serving({}, {}, {d_exc})

SpecLists == InitLists /\ [][NextLists]_vars

-----------------------------------------------------------------------------
(* The dashboard's POST handlers beside one query thread *)

NextPosts ==
    \/ Accept("w1", Message(3, <<Question(n_aexc, "A")>>), MaxQueries)
    \/ Worker("w1")
    \/ DashWrite

SpecPosts == InitLists /\ [][NextPosts]_vars

-----------------------------------------------------------------------------
(* The fetcher from the program's start, with the dashboard's POST handlers *)

NextFetch ==
    \/ Fetcher
    \/ DashWrite

SpecFetch == Init /\ [][NextFetch]_vars

\* The same with time passing: a pending timer fires, and the main block
\* goes on from line 266 to line 267.
SpecFetchLive == SpecFetch /\ WF_vars(FetchStart)

-----------------------------------------------------------------------------
(* The fetcher alone, from the program's start, on feeds made of every kind *)
(* of line: the downloads of the start-up                                   *)

FeedLines ==
    { BlankLine,
      CommentLine,
      <<SP, "#", "c">>,
      ZERO_IP \o <<SP>> \o d_ExC,
      LOOPBACK_IP \o <<SP, SP>> \o d_xc \o <<SP, "#", SP, "x">>,
      <<SP>> \o d_c \o <<SP>>,
      <<"9", SP>> \o d_xc,
      ZERO_IP }

FeedBodies ==
    UNION {[1..n -> FeedLines] : n \in 0..MaxLines}

NextFeed ==
    \/ fetch.runs < FeedFetches /\ FetchStart
    \/ \E kind \in FailKinds : FetchGetFails(kind)
    \/ \E body \in FeedBodies : FetchGetBody(body)
    \/ FetchParse
    \/ FetchParseFails
    \/ FetchLock
    \/ FetchPublish

SpecFeed == Init /\ [][NextFeed]_vars

-----------------------------------------------------------------------------
(* The writers of the lists on input as it comes: a feed and POST bodies    *)
(* whose names are empty, end with a dot or are in upper case               *)

d_exc_dot == d_exc \o <<DOT>>

RawBodies ==
    { <<d_ExC \o <<DOT>>>>,
      <<ZERO_IP \o <<SP>> \o d_xc, LOOPBACK_IP \o <<SP>> \o d_exc_dot>> }

RawPostBodies ==
    { [has_domains |-> TRUE, domains |-> <<NoText>>],
      [has_domains |-> TRUE, domains |-> <<d_exc_dot, d_c>>],
      [has_domains |-> TRUE, domains |-> <<d_ExC>>] }

NextRaw ==
    \/ \E op \in {"allowlist", "denylist"}, data \in RawPostBodies :
          DashPost(op, data)
    \/ DashLockList
    \/ DashAssign
    \/ DashRespond
    \/ FetchStart
    \/ \E kind \in FailKinds : FetchGetFails(kind)
    \/ \E body \in RawBodies : FetchGetBody(body)
    \/ FetchParse
    \/ FetchParseFails
    \/ FetchLock
    \/ FetchPublish

SpecRaw == InitLists /\ [][NextRaw]_vars

-----------------------------------------------------------------------------
(* Every user of the two locks at once: a query thread about to forward,    *)
(* a second one whose query is blocked, the three kinds of dashboard        *)
(* request and one refresh                                                  *)

InitLocks ==
    LET d == Message(4, <<Question(n_xc, "MX")>>)
        e == LogEntry("Query", d_xc, "MX")
    IN /\ BLOCKLIST = {d_exc}
       /\ ALLOWLIST = {}
       /\ DENYLIST = {}
       /\ total_queries = 1
       /\ blocked_queries = 0
       /\ dns_logs = <<e>>
       /\ stats_lock = "free"
       /\ list_lock = "free"
       /\ wk = [w \in Workers |->
                  IF w = "w2"
                  THEN [IdleWorker EXCEPT !.pc = "forward", !.data = d,
                                          !.qname = d_xc, !.entries = <<1>>]
                  ELSE IdleWorker]
       /\ received = 1
       /\ main_pc = "serving"
       /\ timer = 1
       /\ fetch = IdleFetch(MaxFetches - 1, "ok")
       /\ dash = IdleDash
       /\ posts = MaxPosts - 1
       /\ log_history = <<e>>
       /\ counted = 1
       /\ published = {<<{}, {}, {}>>, <<{}, {}, {d_exc}>>}

NextLocks ==
    \/ Accept("w1", Message(3, <<Question(n_aexc, "A")>>), MaxQueries)
    \/ \E w \in Workers : Worker(w)
    \/ FetchStart
    \/ FetchGetBody(<<CommentLine, ZERO_IP \o <<SP>> \o d_exc>>)
    \/ FetchParse
    \/ FetchLock
    \/ FetchPublish
    \/ DashGet("stats")
    \/ DashGet("logs")
    \/ DashPost("denylist", [has_domains |-> TRUE, domains |-> <<d_aexc>>])
    \/ DashLockStats
    \/ DashLockList
    \/ DashReadStats
    \/ DashCopyLogs
    \/ DashReturnLogs
    \/ DashAssign
    \/ DashRespond

SpecLocks == InitLocks /\ [][NextLocks]_vars

\* Fair scheduling: a thread that can run again and again does run, the one
\* that waits for a lock included; a handler holding a lock goes on to its
\* release. Nothing is assumed about datagrams or requests arriving.
\* StoreBlocked(w) is enabled exactly when the thread is at store_blocked
\* and leaves it, so its weak fairness is written as what it means: the
\* thread is not at store_blocked for ever.
SpecLocksLive ==
    /\ SpecLocks
    /\ \A w \in Workers :
          /\ SF_vars(AcquireStats(w))
          /\ WF_vars(LoadTotal(w) \/ StoreTotal(w) \/ LoadBlocked(w)
                        \/ AppendFwd(w))
          /\ []<>(wk[w].pc # "store_blocked")
    /\ SF_vars(DashLockStats)
    /\ SF_vars(DashLockList)
    /\ WF_vars(DashReadStats \/ DashCopyLogs \/ DashReturnLogs \/ DashAssign)
    /\ SF_vars(FetchLock)
    /\ WF_vars(FetchPublish)

-----------------------------------------------------------------------------
(* Every datagram that is counted: queries, and DNS responses sent to the   *)
(* server's port, each for a blocked name and for a forwarded one           *)

CountedDatagrams ==
    { Message(3, <<Question(n_aexc, "A")>>),
      Message(4, <<Question(n_xc, "MX")>>),
      ResponseMessage(6, <<Question(n_aexc, "A")>>),
      ResponseMessage(7, <<Question(n_xc, "MX")>>) }

NextReplies ==
    \/ \E w \in Workers, d \in CountedDatagrams : Accept(w, d, MaxQueries)
    \/ \E w \in Workers : Worker(w)

SpecReplies == InitLists /\ [][NextReplies]_vars

\* Each thread runs on, the upstream call ends, and a thread waiting for
\* stats_lock gets it. Every step of a thread but the acquire is enabled
\* whenever the thread is at it and leads on towards the thread's end, so
\* their weak fairness is written as what it means: the thread is again and
\* again at a lock, or not running.
SpecRepliesLive ==
    /\ SpecReplies
    /\ \A w \in Workers :
          /\ SF_vars(AcquireStats(w))
          /\ []<>(wk[w].pc \in {"idle", "done", "lock_count", "lock_block",
                                 "lock_fwd"})

-----------------------------------------------------------------------------
(* The log ring filled past its capacity: one thread taking blocked queries *)
(* one after the other, and the dashboard reading the log                   *)

RingDatagram(n) ==
    CASE n % 3 = 0 -> Message(2, <<Question(n_Exc, "AAAA")>>)
      [] n % 3 = 1 -> Message(3, <<Question(n_aexc, "A")>>)
      [] OTHER -> Message(4, <<Question(n_xc, "MX")>>)

InitRing == Serving({d_c}, {}, {d_exc})

NextRing ==
    \/ Accept("w1", RingDatagram(received), RingQueries)
    \/ Parse("w1")
    \/ AcquireStats("w1")
    \/ LoadTotal("w1")
    \/ StoreTotal("w1")
    \/ ReadDeny("w1")
    \/ ReadAllow("w1")
    \/ Match("w1")
    \/ LoadBlocked("w1")
    \/ StoreBlocked("w1")
    \/ DashLogs

SpecRing == InitRing /\ [][NextRing]_vars

-----------------------------------------------------------------------------
(* Properties *)

Matched(w) == wk[w].pc \in {"lock_block", "load_blocked", "store_blocked",
                            "forward", "wait_upstream", "lock_fwd", "append_fwd"}
              \/ (wk[w].pc = "done" /\ wk[w].reply # NoReply)

Blocks(action) == action \in {"DENYLIST", "BLOCKLIST"}

\* s is q or a suffix of q that starts right after a dot of q
IsLabelSuffix(s, q) == s = q \/ EndsWith(q, <<DOT>> \o s)

LabelSuffixes(q) ==
    {s \in {SubSeq(q, i, Len(q)) : i \in 1..Len(q)} : IsLabelSuffix(s, q)}

ListedSuffixes(q) ==
    {s \in LabelSuffixes(q) : s \in DENYLIST \cup ALLOWLIST \cup BLOCKLIST}

MostSpecific(q) ==
    CHOOSE s \in ListedSuffixes(q) : \A t \in ListedSuffixes(q) : Len(t) <= Len(s)

ActionAt(s) ==
    IF s \in DENYLIST THEN "DENYLIST"
    ELSE IF s \in ALLOWLIST THEN "ALLOWLIST"
    ELSE "BLOCKLIST"

\* C1: the match returns the action of the most specific listed suffix of
\* qname, DENYLIST before ALLOWLIST before BLOCKLIST at that suffix, and
\* (None, None) exactly when no suffix is listed; so a more specific
\* allowlist entry overrides a less specific blocklist or denylist entry and
\* a more specific blocklist entry overrides a less specific allowlist entry.
C1_MostSpecificSuffixWins ==
    \A w \in Workers : Matched(w) =>
        LET q == wk[w].qname
        IN /\ (ListedSuffixes(q) = {}) <=> (wk[w].action = None)
           /\ ListedSuffixes(q) = {} => wk[w].matched = NoText
           /\ ListedSuffixes(q) # {} =>
                 /\ wk[w].matched = MostSpecific(q)
                 /\ wk[w].action = ActionAt(MostSpecific(q))
           /\ \A s \in ListedSuffixes(q) :
                 (s # wk[w].matched) => Len(s) < Len(wk[w].matched)

C1_Witness ==
    /\ wk["w1"].pc = "forward"
    /\ wk["w1"].qname = d_aexc
    /\ wk["w1"].action = "ALLOWLIST"
    /\ wk["w1"].matched = d_aexc
    /\ d_exc \in DENYLIST
    /\ d_c \in BLOCKLIST

\* A blocklist entry p that is a proper parent of q, with no list entry at a
\* suffix of q closer than p.
ClosestIsBlocklistParent(p, q) ==
    /\ p \in BLOCKLIST
    /\ p # q
    /\ IsLabelSuffix(p, q)
    /\ \A s \in ListedSuffixes(q) : Len(s) <= Len(p)

MatchAtLabelBoundary(w) ==
    /\ wk[w].action # None => IsLabelSuffix(wk[w].matched, wk[w].qname)
    /\ ListedSuffixes(wk[w].qname) = {} => wk[w].action = None

\* C2 as stated: the matched domain is qname or a suffix of it at a label
\* boundary, an entry that is no such suffix never matches, and a parent in
\* the blocklist blocks every subdomain that has no closer list entry.
C2_AsStated ==
    \A w \in Workers : Matched(w) =>
        /\ MatchAtLabelBoundary(w)
        /\ \A p \in BLOCKLIST :
              ClosestIsBlocklistParent(p, wk[w].qname)
                  => Blocks(wk[w].action)

\* C2 amended: as stated, but the parent in the blocklist blocks only if it
\* is not also in the allowlist without being in the denylist.
C2_ParentBlocksUnlessAllowed ==
    \A w \in Workers : Matched(w) =>
        /\ MatchAtLabelBoundary(w)
        /\ \A p \in BLOCKLIST :
              ClosestIsBlocklistParent(p, wk[w].qname)
                  => IF p \in ALLOWLIST /\ p \notin DENYLIST
                     THEN wk[w].action = "ALLOWLIST" /\ wk[w].matched = p
                     ELSE Blocks(wk[w].action) /\ wk[w].matched = p

C2_Witness ==
    /\ wk["w1"].pc = "lock_block"
    /\ wk["w1"].qname = d_exc
    /\ d_xc \in BLOCKLIST
    /\ d_exc \notin DENYLIST \cup ALLOWLIST \cup BLOCKLIST
    /\ wk["w1"].action = "BLOCKLIST"
    /\ wk["w1"].matched = d_c

Sinkhole(w) ==
    [id |-> wk[w].data.id,
     question |-> wk[w].data.question,
     rcode |-> 0,
     answer |-> <<[name |-> wk[w].data.question[1].name, ttl |-> 60,
                   rdclass |-> "IN", rdtype |-> "A", rdata |-> SINKHOLE_IP]>>,
     authority |-> << >>,
     additional |-> << >>]

Called(w) == wk[w].pc \in {"wait_upstream", "lock_fwd", "append_fwd", "done"}

\* C3: a query whose action is DENYLIST or BLOCKLIST is answered with the
\* sinkhole response and never reaches the upstream; a query whose action is
\* ALLOWLIST or None calls the upstream exactly once and is never answered
\* with the sinkhole response.
C3_BlockedNeverForwarded ==
    \A w \in Workers : Matched(w) =>
        IF Blocks(wk[w].action)
        THEN /\ wk[w].upstream_calls = 0
             /\ wk[w].pc = "done" => wk[w].reply = <<Sinkhole(w)>>
        ELSE /\ wk[w].action \in {"ALLOWLIST", None}
             /\ wk[w].upstream_calls = (IF Called(w) THEN 1 ELSE 0)
             /\ wk[w].reply # <<Sinkhole(w)>>
             /\ wk[w].pc = "done" => wk[w].reply # NoReply

C3_Witness ==
    /\ wk["w1"].pc = "done"
    /\ wk["w1"].action = "ALLOWLIST"
    /\ wk["w1"].upstream_calls = 1
    /\ wk["w1"].reply # NoReply
    /\ wk["w2"].pc = "done"
    /\ wk["w2"].action = "DENYLIST"
    /\ wk["w2"].reply = <<Sinkhole("w2")>>

\* C4: blocked_queries <= total_queries in every state, and in every pair
\* of values GET /api/stats returns.
C4_BlockedAtMostTotal ==
    /\ blocked_queries <= total_queries
    /\ dash.op = "stats" /\ dash.pc = "respond"
          => dash.stats.blocked_queries <= dash.stats.total_queries

C4_Witness ==
    /\ dash.op = "stats"
    /\ dash.pc = "respond"
    /\ dash.stats.blocked_queries = 1
    /\ dash.stats.total_queries = 2
    /\ blocked_queries = 2

Uncounted == {w \in Workers : wk[w].pc \in {"lock_count", "load_total", "store_total"}}

\* C5: every datagram parsed with a question increments total_queries exactly
\* once: total_queries is the number of such datagrams, less those whose
\* thread has not yet made its increment.
C5_TotalCountsEachQueryOnce ==
    total_queries = counted - Cardinality(Uncounted)

C5_Witness ==
    /\ \A w \in Workers : wk[w].pc = "done"
    /\ received = 2
    /\ counted = 2
    /\ total_queries = 2
    /\ wk["w1"].outcome = "timeout"
    /\ wk["w2"].action = "BLOCKLIST"

BlockedEntries ==
    {i \in 1..Len(log_history) :
        log_history[i].tag \in {"BLOCKLIST BLOCKED", "DENYLIST BLOCKED"}}

\* C6: whenever stats_lock is free, blocked_queries is the number of BLOCKED
\* entries ever appended to the log; FORWARDED, TIMEOUT and ERROR entries
\* come without an increment.
C6_BlockedCountsBlockedEntries ==
    stats_lock = "free" => blocked_queries = Cardinality(BlockedEntries)

C6_Witness ==
    /\ stats_lock = "free"
    /\ blocked_queries = 1
    /\ \E i \in 1..Len(log_history) : log_history[i].tag = "BLOCKLIST BLOCKED"
    /\ \E i \in 1..Len(log_history) : log_history[i].tag = "ERROR"
    /\ \A w \in Workers : wk[w].pc = "done"

\* C7: the three sets one match uses were all published at one instant.
C7_SnapshotIsOneInstant ==
    \A w \in Workers : wk[w].consistent

FetchFailed(last) == last \in {"request_error", "processing_error"}

\* C8: a download that fails changes nothing: no step of download_blocklist
\* but the assignment at line 76 changes the lists, the counters or the log,
\* and a failing call returns without having reached that assignment.
C8_FailedFetchChangesNothing ==
    [][ /\ (fetch' # fetch /\ fetch.pc # "publish")
            => UNCHANGED <<BLOCKLIST, ALLOWLIST, DENYLIST, total_queries,
                           blocked_queries, dns_logs>>
        /\ (fetch.pc # "idle" /\ fetch'.pc = "idle" /\ FetchFailed(fetch'.last))
            => fetch.pc \in {"get", "parse"}
        /\ (fetch.pc # "idle" /\ fetch'.pc = "idle" /\ fetch.pc # "publish")
            => FetchFailed(fetch'.last) ]_vars

C8_Witness ==
    /\ fetch.pc = "idle"
    /\ fetch.last = "processing_error"
    /\ fetch.runs = 3
    /\ BLOCKLIST = {d_exc}
    /\ ALLOWLIST = {d_aexc}

LastOf(h, n) == SubSeq(h, Len(h) - n + 1, Len(h))

\* C9: the ring never holds more than 100 entries, it holds the last
\* min(100, appends) entries in append order, and GET /api/logs copies them
\* newest first.
C9_RingKeepsLast100 ==
    /\ Len(dns_logs) <= 100
    /\ dns_logs = LastOf(log_history,
                         IF Len(log_history) < 100 THEN Len(log_history) ELSE 100)
    /\ dash.pc = "return_logs" =>
          /\ Len(dash.logs) = Len(dns_logs)
          /\ \A i \in 1..Len(dns_logs) :
                dash.logs[i] = dns_logs[Len(dns_logs) + 1 - i]

C9_Witness ==
    /\ Len(log_history) = 103
    /\ dash.pc = "return_logs"
    /\ Len(dash.logs) = 100
    /\ dash.logs[1] = log_history[103]
    /\ dash.logs[100] = log_history[4]
    /\ dash.logs[1] # dash.logs[100]

\* C10: the reply to a blocked query, whatever its type, has the query's id
\* and question, RCODE 0, one answer (owner the queried name, IN, A, TTL 60,
\* SINKHOLE_IP) and empty authority and additional sections.
C10_SinkholeResponseShape ==
    \A w \in Workers :
        wk[w].pc = "done" /\ Blocks(wk[w].action)
            => wk[w].reply = <<Sinkhole(w)>>

C10_Witness ==
    /\ wk["w1"].pc = "done"
    /\ wk["w1"].data = Message(2, <<Question(n_Exc, "AAAA")>>)
    /\ wk["w1"].qname = d_exc
    /\ wk["w1"].action = "BLOCKLIST"
    /\ wk["w1"].reply = <<Sinkhole("w1")>>
    /\ wk["w1"].reply[1].answer[1].name = n_Exc
    /\ wk["w1"].reply[1].answer[1].rdtype = "A"

Forwarding(w) == wk[w].pc \in {"forward", "wait_upstream", "lock_fwd", "append_fwd"}

Servfail(w) ==
    [id |-> wk[w].data.id,
     question |-> wk[w].data.question,
     rcode |-> 2,
     answer |-> << >>,
     authority |-> << >>,
     additional |-> << >>]

\* C11: a forwarded query whose upstream call timed out or raised ends with
\* a SERVFAIL reply carrying the query's id and question and no records, and
\* with exactly one entry appended for it after its 'Query' entry, TIMEOUT or
\* ERROR as the call ended; no step of the forwarding path changes
\* total_queries or blocked_queries.
C11_UpstreamFailureGivesServfail ==
    [][ \A w \in Workers :
          /\ (Forwarding(w) /\ wk'[w] # wk[w])
                => UNCHANGED <<total_queries, blocked_queries>>
          /\ (wk[w].pc = "append_fwd" /\ wk'[w].pc = "done"
                 /\ wk[w].outcome \in {"timeout", "error"})
                => /\ wk'[w].reply = <<Servfail(w)>>
                   /\ Len(log_history') = Len(log_history) + 1
                   /\ log_history'[Len(log_history')].tag =
                         (IF wk[w].outcome = "timeout" THEN "TIMEOUT" ELSE "ERROR")
                   /\ log_history'[Len(log_history')].qname = wk[w].qname
                   /\ Len(wk[w].entries) = 1
                   /\ wk'[w].entries = <<wk[w].entries[1], Len(log_history')>>
                   /\ total_queries >= 1 ]_vars

C11_Witness ==
    /\ wk["w1"].pc = "done"
    /\ wk["w1"].outcome = "timeout"
    /\ wk["w1"].reply = <<Servfail("w1")>>
    /\ wk["w2"].pc = "done"
    /\ wk["w2"].outcome = "error"
    /\ wk["w2"].reply = <<Servfail("w2")>>
    /\ total_queries = 2
    /\ blocked_queries = 0
    /\ Len(log_history) = 4

Tokens(line) == SplitWhitespace(line)

\* What one line of a feed is to contribute.
Contribution(line) ==
    LET t == Tokens(line)
    IN IF Len(t) = 0 \/ t[1][1] = "#" THEN {}
       ELSE IF Len(t) >= 2 /\ t[1] \in {ZERO_IP, LOOPBACK_IP} THEN {Lower(t[2])}
       ELSE IF Len(t) = 1 THEN {Lower(t[1])}
       ELSE {}

ExpectedBlocklist(body) == UNION {Contribution(body[i]) : i \in 1..Len(body)}

\* C12: the set a download builds from a body is the union of what its lines
\* contribute (nothing for a blank line or a comment, the lowercased second
\* token after 0.0.0.0 or 127.0.0.1, the lowercased token of a one-token
\* line, nothing otherwise), no entry is empty, and the assignment at line
\* 76 makes BLOCKLIST that set, whatever BLOCKLIST was.
C12_PublishedSetIsParsedFeed ==
    [][ /\ (fetch.pc = "parse" /\ fetch'.pc = "lock")
            => /\ fetch'.new_blocklist = ExpectedBlocklist(fetch.body)
               /\ NoText \notin fetch'.new_blocklist
        /\ (fetch.pc = "publish" /\ fetch'.pc = "idle")
            => /\ BLOCKLIST' = fetch.new_blocklist
               /\ fetch'.last = "ok"
        /\ BLOCKLIST' # BLOCKLIST => fetch.pc = "publish" ]_vars

C12_Witness ==
    /\ fetch.pc = "idle"
    /\ fetch.last = "ok"
    /\ fetch.runs = 2
    /\ BLOCKLIST = {d_xc, ZERO_IP}
    /\ <<{}, {}, {d_exc, d_c}>> \in published

Posting == dash.op \in {"allowlist", "denylist"}

\* The set a POST body asks for.
Wanted(data) ==
    IF data.has_domains
    THEN {Lower(data.domains[i]) : i \in 1..Len(data.domains)}
    ELSE {}

\* C13: the assignment of a POST makes the posted list the set of the
\* lowercased domains of the request (empty if the request has no 'domains'),
\* whatever the list held, and leaves the other two lists alone; no step of
\* a POST handler changes the counters or the log, and no other step of it
\* changes a list.
C13_PostReplacesOnlyItsList ==
    [][ /\ (Posting /\ dash.pc = "assign" /\ dash'.pc = "respond")
            => /\ dash.op = "allowlist"
                    => ALLOWLIST' = Wanted(dash.data) /\ UNCHANGED DENYLIST
               /\ dash.op = "denylist"
                    => DENYLIST' = Wanted(dash.data) /\ UNCHANGED ALLOWLIST
               /\ UNCHANGED <<BLOCKLIST, total_queries, blocked_queries, dns_logs>>
        /\ (dash' # dash /\ ~(Posting /\ dash.pc = "assign"))
            => UNCHANGED <<BLOCKLIST, ALLOWLIST, DENYLIST, total_queries,
                           blocked_queries, dns_logs>> ]_vars

C13_Witness ==
    /\ dash.pc = "respond"
    /\ dash.op = "allowlist"
    /\ dash.data = NoDomains
    /\ posts = 2
    /\ ALLOWLIST = {}
    /\ DENYLIST = {}
    /\ BLOCKLIST = {d_exc}
    /\ <<{}, {d_exc}, {d_exc}>> \in published
    /\ total_queries = 1
    /\ Len(dns_logs) = 2

PendingUpstream == {v \in Workers : wk[v].pc = "wait_upstream"}

WantsStatsLock(w) == wk[w].pc \in {"lock_count", "lock_block", "lock_fwd"}

Running(w) == wk[w].pc \notin {"idle", "done"}

\* C14: a thread that waits for the upstream holds no lock, and beside it
\* the receive loop takes the next datagram on a free thread and every other
\* running thread can take its next step, unless that step is to take
\* stats_lock while a thread that does not wait for the upstream holds it.
C14_PendingForwardBlocksNobody ==
    \A w \in PendingUpstream :
        /\ stats_lock # w
        /\ list_lock # w
        /\ \A v \in Workers \ {w} :
              /\ (~Running(v) /\ received < MaxQueries)
                    => \A d \in Datagrams : ENABLED Accept(v, d, MaxQueries)
              /\ (Running(v) /\ (WantsStatsLock(v) => stats_lock = "free"))
                    => ENABLED Worker(v)

C14_Witness ==
    /\ wk["w1"].pc = "wait_upstream"
    /\ wk["w2"].pc = "done"
    /\ received = 2
    /\ wk["w2"].action = "BLOCKLIST"
    /\ wk["w2"].reply = <<Sinkhole("w2")>>

\* What the upstream sent for the query of w.
UpstreamAnswer(w) ==
    [id |-> wk[w].data.id,
     question |-> wk[w].data.question,
     rcode |-> 0,
     answer |-> <<[name |-> wk[w].data.question[1].name, ttl |-> 300,
                   rdclass |-> "IN", rdtype |-> wk[w].data.question[1].rdtype,
                   rdata |-> UPSTREAM_IP]>>,
     authority |-> << >>,
     additional |-> << >>]

\* C15: when the upstream call returns, the thread holds the upstream's
\* response, replies with it as it is and appends exactly one entry after
\* its 'Query' entry: FORWARDED for the queried name, annotated with the
\* matched allowlist entry if the action was ALLOWLIST and not annotated
\* otherwise.
C15_ForwardedReplyAndEntry ==
    [][ \A w \in Workers :
          /\ (wk[w].pc = "wait_upstream" /\ wk'[w].pc = "lock_fwd"
                 /\ wk'[w].outcome = "ok")
                => wk'[w].response = <<UpstreamAnswer(w)>>
          /\ (wk[w].pc = "append_fwd" /\ wk'[w].pc = "done"
                 /\ wk[w].outcome = "ok")
                => /\ wk'[w].reply = wk[w].response
                   /\ wk'[w].reply = <<UpstreamAnswer(w)>>
                   /\ log_history' = Append(log_history,
                         [tag |-> "FORWARDED", qname |-> wk[w].qname,
                          note |-> IF wk[w].action = "ALLOWLIST"
                                   THEN wk[w].matched ELSE NoText])
                   /\ wk[w].action = "ALLOWLIST"
                         => wk[w].matched \in ALLOWLIST /\ wk[w].matched # NoText
                   /\ Len(wk[w].entries) = 1
                   /\ wk'[w].entries = <<wk[w].entries[1], Len(log_history')>> ]_vars

C15_Witness ==
    /\ wk["w1"].pc = "done"
    /\ wk["w1"].outcome = "ok"
    /\ wk["w1"].action = "ALLOWLIST"
    /\ wk["w1"].reply = <<UpstreamAnswer("w1")>>
    /\ log_history[wk["w1"].entries[2]] =
          [tag |-> "FORWARDED", qname |-> d_aexc, note |-> d_aexc]
    /\ wk["w2"].pc = "done"
    /\ wk["w2"].outcome = "ok"
    /\ wk["w2"].action = None
    /\ wk["w2"].reply = <<UpstreamAnswer("w2")>>
    /\ log_history[wk["w2"].entries[2]] =
          [tag |-> "FORWARDED", qname |-> d_xc, note |-> NoText]

Undecodable(d) == ~d.parses \/ d.question = << >>

\* C16: the thread of a datagram that does not parse, or that has no
\* question, ends at once without a reply, without a call to the upstream
\* and without an entry, and its step leaves the counters, the log and the
\* three lists as they were; the thread of any other datagram goes on to
\* count it, and nothing follows a drop but the next datagram.
C16_UndecodableIsDropped ==
    [][ \A w \in Workers :
          /\ (wk[w].pc = "parse" /\ wk'[w] # wk[w] /\ Undecodable(wk[w].data))
                => /\ wk'[w].pc = "done"
                   /\ wk'[w].reply = NoReply
                   /\ wk'[w].upstream_calls = 0
                   /\ wk'[w].entries = << >>
                   /\ UNCHANGED <<total_queries, blocked_queries, dns_logs,
                                  log_history, BLOCKLIST, ALLOWLIST, DENYLIST>>
          /\ (wk[w].pc = "parse" /\ wk'[w] # wk[w] /\ ~Undecodable(wk[w].data))
                => wk'[w].pc = "lock_count"
          /\ (wk[w].pc = "done" /\ wk'[w] # wk[w])
                => /\ wk'[w].pc = "parse"
                   /\ received' = received + 1 ]_vars

C16_Witness ==
    /\ wk["w1"].pc = "done"
    /\ wk["w1"].data = Junk
    /\ wk["w1"].reply = NoReply
    /\ wk["w2"].pc = "done"
    /\ wk["w2"].data = Message(1, << >>)
    /\ wk["w2"].reply = NoReply
    /\ received = 2
    /\ total_queries = 0
    /\ dns_logs = << >>

OutcomeTags == {"DENYLIST BLOCKED", "BLOCKLIST BLOCKED", "FORWARDED", "TIMEOUT",
                "ERROR"}

\* The place in the ring of the k-th entry ever appended; below 1 once the
\* entry has been dropped.
RingPos(k) == k - (Len(log_history) - Len(dns_logs))

\* C17: a thread has appended nothing before it has counted its query; from
\* then until its outcome it has appended its 'Query' entry alone, so that
\* entry and the total_queries increment made with it come before the
\* thread's blocked_queries increment and outcome entry; the outcome entry
\* is one of BLOCKED, FORWARDED, TIMEOUT, ERROR, appended later, and while
\* both are in the ring the 'Query' entry is at the lower place.
C17_QueryEntryBeforeOutcome ==
    \A w \in Workers :
        LET e == wk[w].entries
        IN /\ wk[w].pc \in {"idle", "parse", "lock_count", "load_total",
                             "store_total"} => e = << >>
           /\ wk[w].pc \in {"read_deny", "read_allow", "read_block", "lock_block",
                             "load_blocked", "store_blocked", "forward",
                             "wait_upstream", "lock_fwd", "append_fwd"}
                 => Len(e) = 1
           /\ (wk[w].pc = "done" /\ ~Undecodable(wk[w].data)) => Len(e) = 2
           /\ Len(e) >= 1 =>
                 /\ log_history[e[1]].tag = "Query"
                 /\ log_history[e[1]].qname = wk[w].qname
                 /\ total_queries >= 1
           /\ Len(e) = 2 =>
                 /\ e[1] < e[2]
                 /\ log_history[e[2]].tag \in OutcomeTags
                 /\ log_history[e[2]].qname = wk[w].qname
                 /\ RingPos(e[2]) >= 1
                 /\ dns_logs[RingPos(e[2])] = log_history[e[2]]
                 /\ RingPos(e[1]) >= 1 =>
                       /\ dns_logs[RingPos(e[1])] = log_history[e[1]]
                       /\ RingPos(e[1]) < RingPos(e[2])

C17_Witness ==
    /\ wk["w1"].pc = "done"
    /\ wk["w2"].pc = "done"
    /\ wk["w1"].entries = <<1, 4>>
    /\ wk["w2"].entries = <<2, 3>>
    /\ wk["w1"].qname = d_exc
    /\ wk["w2"].qname = d_exc
    /\ dns_logs[3].tag = "BLOCKLIST BLOCKED"
    /\ dns_logs[2].tag = "Query"

FetchStarts == fetch.pc = "idle" /\ fetch'.pc = "get"

\* C18: the first download is started by the main block before the server
\* runs, and every later download is started by the firing of a refresh
\* timer while the server runs, a BLOCKLIST_REFRESH_INTERVAL after the
\* download before it: at start-up exactly one download runs.
C18_OneFetchThenIntervals ==
    [][ FetchStarts =>
          IF fetch.runs = 0 THEN main_pc = "download"
          ELSE timer = 1 /\ main_pc = "serving" ]_vars

RefreshReturns == fetch.pc # "idle" /\ fetch'.pc = "idle" /\ main_pc # "download"

\* C19: at most one refresh timer is pending and none while a download
\* runs; a run of refresh_blocklist_periodically starts exactly one timer
\* when its download returns, failed or not, and nothing else starts one;
\* after a failed download the next download is started.
C19_RefreshAlwaysReschedules ==
    /\ [](timer <= 1 /\ (fetch.pc # "idle" => timer = 0))
    /\ [][RefreshReturns => timer' = timer + 1]_vars
    /\ [][timer' > timer => RefreshReturns]_vars
    /\ \A n \in 1..(MaxFetches - 1) :
          (fetch.pc = "idle" /\ fetch.runs = n /\ FetchFailed(fetch.last))
              ~> (fetch.pc = "get" /\ fetch.runs = n + 1
                    /\ FetchFailed(fetch.last))

C19_Witness ==
    /\ fetch.pc = "get"
    /\ fetch.runs = 3
    /\ fetch.last = "processing_error"
    /\ timer = 0
    /\ main_pc = "serving"

InMatch(w) == wk[w].pc \in {"read_deny", "read_allow", "read_block", "loop"}

PublishedAs(k) == {p[k] : p \in published}

\* C20: the iterations of one match all test the same three sets, each of
\* them a set that was published for its list, whatever is replaced between
\* the iterations; the result is that of the match on those sets; and a
\* matching thread holds no lock, so the writer that holds list_lock can
\* make its assignment.
C20_OneSetPerListPerMatch ==
    \A w \in Workers :
        LET t == wk[w].tested
        IN /\ \A a, b \in 1..Len(t) : t[a].used = t[b].used
           /\ \A a \in 1..Len(t) : \A k \in 1..3 : t[a].used[k] \in PublishedAs(k)
           /\ (Len(t) > 0 /\ wk[w].pc \in {"lock_block", "forward"})
                 => <<wk[w].action, wk[w].matched>> =
                       is_domain_blocked_hierarchical(
                           wk[w].qname, t[1].used[1], t[1].used[2], t[1].used[3])
           /\ InMatch(w) =>
                 /\ list_lock # w
                 /\ stats_lock # w
                 /\ dash.pc = "assign" => ENABLED DashAssign
                 /\ fetch.pc = "publish" => ENABLED FetchPublish

C20_Witness ==
    LET t == wk["w1"].tested
    IN /\ wk["w1"].pc = "lock_block"
       /\ Len(t) = 3
       /\ t[1].used = <<{}, {}, {d_c, d_xc}>>
       /\ t[3].used = t[1].used
       /\ t[1].current = t[1].used
       /\ t[2].current = <<{}, {d_exc}, {d_c, d_xc}>>
       /\ t[3].current = <<{}, {d_exc}, {d_exc}>>
       /\ wk["w1"].action = "BLOCKLIST"
       /\ wk["w1"].matched = d_c

Normalized(d) ==
    /\ d # NoText
    /\ d = Lower(d)
    /\ d[Len(d)] # DOT

\* C21: every entry of BLOCKLIST, ALLOWLIST and DENYLIST is a normalized
\* domain: not empty, in lower case and without a trailing dot.
C21_ListsHoldNormalizedDomains ==
    \A d \in BLOCKLIST \cup ALLOWLIST \cup DENYLIST : Normalized(d)

Threads == Workers \cup {"dash", "fetch"}

\* The lock a thread is blocked on, "none" when it is not at an acquire.
WaitsFor(t) ==
    CASE t \in Workers ->
           IF wk[t].pc \in {"lock_count", "lock_block", "lock_fwd"}
           THEN "stats_lock" ELSE "none"
      [] t = "dash" ->
           IF dash.pc = "lock_stats" THEN "stats_lock"
           ELSE IF dash.pc = "lock_list" THEN "list_lock" ELSE "none"
      [] t = "fetch" -> IF fetch.pc = "lock" THEN "list_lock" ELSE "none"

Holds(t, lock) ==
    IF lock = "stats_lock" THEN stats_lock = t ELSE list_lock = t

\* The thread t takes the lock in this step.
Acquires(t, lock) ==
    IF lock = "stats_lock"
    THEN stats_lock # t /\ stats_lock' = t
    ELSE list_lock # t /\ list_lock' = t

\* The upstream call of a query thread, the download of the fetcher.
InSlowCall(t) ==
    CASE t \in Workers -> wk[t].pc = "wait_upstream"
      [] t = "fetch" -> fetch.pc \in {"get", "parse"}
      [] OTHER -> FALSE

LockOrder ==
    \A t \in Threads :
        /\ Acquires(t, "stats_lock") => list_lock # t
        /\ Acquires(t, "list_lock") /\ stats_lock = t =>
              t = "dash" /\ dash.op = "stats"

NoLockAcrossSlowCall ==
    \A t \in Threads :
        InSlowCall(t) => ~Holds(t, "stats_lock") /\ ~Holds(t, "list_lock")

\* A wait ends in one way: the waiting thread has the lock it waited for.
WaitEndsHolding ==
    \A t \in Threads :
        WaitsFor(t) # "none" /\ WaitsFor(t)' # WaitsFor(t) =>
            IF WaitsFor(t) = "stats_lock" THEN stats_lock' = t
            ELSE list_lock' = t

\* C22: a thread takes stats_lock only while it does not hold list_lock, and
\* takes list_lock while holding stats_lock only in GET /api/stats; no
\* thread holds a lock during the upstream call or the download; under fair
\* scheduling a thread waiting for a lock gets it: no thread waits for
\* ever, and a wait ends only with the lock acquired.
C22_LocksNeverDeadlock ==
    /\ [][LockOrder]_vars
    /\ []NoLockAcrossSlowCall
    /\ [][WaitEndsHolding]_vars
    /\ \A t \in Threads : []<>(WaitsFor(t) = "none")

\* GET /api/stats holds stats_lock and waits for list_lock, which the
\* refresh holds, while a query thread waits for stats_lock.
C22_Witness ==
    /\ stats_lock = "dash"
    /\ WaitsFor("dash") = "list_lock"
    /\ list_lock = "fetch"
    /\ \E w \in Workers : WaitsFor(w) = "stats_lock"

\* The thread has counted its datagram in total_queries.
Counted(w) == wk[w].entries # << >>

\* The outcome entries the thread has appended.
OutcomesOf(w) ==
    {k \in 1..Len(wk[w].entries) :
        log_history[wk[w].entries[k]].tag \in OutcomeTags}

Answered(w) ==
    /\ wk[w].pc = "done"
    /\ Cardinality(OutcomesOf(w)) = 1
    /\ Len(wk[w].reply) = 1

\* C23: a thread that has counted its datagram never has more than one
\* outcome entry or more than one reply, ends with exactly one of each, and
\* does end, the upstream call returning, failing or timing out.
C23_CountedQueryGetsOneOutcomeOneReply ==
    /\ [](\A w \in Workers : Counted(w) =>
            /\ Cardinality(OutcomesOf(w)) <= 1
            /\ Len(wk[w].reply) <= 1
            /\ wk[w].pc = "done" => Answered(w))
    /\ \A w \in Workers : Counted(w) ~> Answered(w)

=============================================================================
